---- MODULE Spec2Model ----
(***************************************************************************)
(* Model of src/app.py: a Streamlit script that loads a cached classifier, *)
(* renders a transaction form and, on submission, builds the feature       *)
(* vector (preprocess_input), scores it and renders a decision.            *)
(*                                                                         *)
(* Streamlit re-executes the whole script on every interaction; one run    *)
(* of the script is the sequence of steps tracked by pc.  What survives a  *)
(* run is the st.cache_resource memo (cache) and the widget values (args). *)
(*                                                                         *)
(* Numbers are Python floats.  They are modelled as binary floating-point  *)
(* values with a MantBits-bit significand and round-half-to-even, in whole *)
(* currency units: a scaled-down IEEE-754 double (53 bits), so that every  *)
(* + and - of preprocess_input rounds as the interpreter's does.           *)
(***************************************************************************)
EXTENDS Integers, Sequences, FiniteSets, TLC

\* ------------------------------------------------------------------ bounds

\* significand width of the modelled float (53 for a Python float)
MantBits == 17

\* joblib.load attempts modelled (failed loads may repeat on every rerun)
MaxReads == 3

\* ------------------------------------------------------- float arithmetic

RECURSIVE Pow2(_)
Pow2(k) == IF k = 0 THEN 1 ELSE 2 * Pow2(k - 1)

RECURSIVE BitLen(_)
BitLen(n) == IF n = 0 THEN 0 ELSE 1 + BitLen(n \div 2)

Abs(x) == IF x < 0 THEN -x ELSE x

\* Round an exact value to the nearest float, ties to even significand.
Fl(x) ==
    LET a == Abs(x)
        L == BitLen(a)
    IN  IF L <= MantBits THEN x
        ELSE LET q    == Pow2(L - MantBits)
                 m    == a \div q
                 r    == a - m * q
                 half == q \div 2
                 up   == r > half \/ (r = half /\ m % 2 = 1)
                 v    == IF up THEN (m + 1) * q ELSE m * q
             IN  IF x < 0 THEN -v ELSE v

FAdd(x, y) == Fl(x + y)

FSub(x, y) == Fl(x - y)

\* ------------------------------------------------------- preprocess_input

\* a. type_val = 0 if type_input == 'TRANSFER' else 1
type_val_Inverted(type_input) == IF type_input = "CASH_OUT" THEN 1 ELSE 0

type_val(type_input) == IF type_input = "TRANSFER" THEN 0 ELSE 1

\* b. the condition of the imputation branch
ImputeCond_NoAmountGuard(amount, old_bal_dest, new_bal_dest) ==
    old_bal_dest = 0 /\ new_bal_dest = 0

ImputeCond(amount, old_bal_dest, new_bal_dest) ==
    old_bal_dest = 0 /\ new_bal_dest = 0 /\ amount # 0

old_bal_dest_proc_NotImputed(amount, old_bal_dest, new_bal_dest) == old_bal_dest

old_bal_dest_proc(amount, old_bal_dest, new_bal_dest) ==
    IF ImputeCond(amount, old_bal_dest, new_bal_dest) THEN -1 ELSE old_bal_dest

new_bal_dest_proc_NotImputed(amount, old_bal_dest, new_bal_dest) == new_bal_dest

new_bal_dest_proc(amount, old_bal_dest, new_bal_dest) ==
    IF ImputeCond(amount, old_bal_dest, new_bal_dest) THEN -1 ELSE new_bal_dest

\* c. error_orig = new_bal_orig + amount - old_bal_orig
error_orig_SignFlipped(amount, old_bal_orig, new_bal_orig) ==
    FSub(FAdd(old_bal_orig, amount), new_bal_orig)

error_orig(amount, old_bal_orig, new_bal_orig) ==
    FSub(FAdd(new_bal_orig, amount), old_bal_orig)

\*    error_dest = old_bal_dest_proc + amount - new_bal_dest_proc
error_dest(amount, old_proc, new_proc) ==
    FSub(FAdd(old_proc, amount), new_proc)

\* d. the column names, in the order of the row
columns ==
    << "step", "type", "amount", "oldBalanceOrig", "newBalanceOrig",
       "oldBalanceDest", "newBalanceDest", "errorBalanceOrig", "errorBalanceDest" >>

preprocess_input_RawDest(a) ==
    LET op == old_bal_dest_proc(a.amount, a.old_bal_dest, a.new_bal_dest)
        np == new_bal_dest_proc(a.amount, a.old_bal_dest, a.new_bal_dest)
    IN  << a.step, type_val(a.type_input), a.amount, a.old_bal_orig, a.new_bal_orig,
           a.old_bal_dest, a.new_bal_dest,
           error_orig(a.amount, a.old_bal_orig, a.new_bal_orig),
           error_dest(a.amount, op, np) >>

\* the single row of the returned DataFrame
preprocess_input(a) ==
    LET op == old_bal_dest_proc(a.amount, a.old_bal_dest, a.new_bal_dest)
        np == new_bal_dest_proc(a.amount, a.old_bal_dest, a.new_bal_dest)
    IN  << a.step, type_val(a.type_input), a.amount, a.old_bal_orig, a.new_bal_orig,
           op, np,
           error_orig(a.amount, a.old_bal_orig, a.new_bal_orig),
           error_dest(a.amount, op, np) >>

\* ------------------------------------------------------------------ inputs

\* largest whole amount up to which -1 + amount + 1 is computed exactly
ExactMax == Pow2(MantBits)

\* a representable amount above the significand range
BigAmount == Pow2(MantBits) + 2

\* st.slider(min_value=1, max_value=744, value=1)
Steps == {1, 744}

\* st.selectbox options
FormTypes == {"TRANSFER", "CASH_OUT"}

\* values a direct caller of preprocess_input may pass as type_input
AnyTypes == FormTypes \cup {"PAYMENT"}

\* st.number_input(min_value=0.0): sample amounts and balances
Amounts == {0, 100, 50000, ExactMax, BigAmount}

OrigOld == {0, 100000}

OrigNew == {0, 50000}

DestBal == {0, 50000}

Args(types) ==
    [ step : Steps, type_input : types, amount : Amounts,
      old_bal_orig : OrigOld, new_bal_orig : OrigNew,
      old_bal_dest : DestBal, new_bal_dest : DestBal ]

\* the widgets' default values (value=...)
DefaultArgs ==
    [ step |-> 1, type_input |-> "TRANSFER", amount |-> 50000,
      old_bal_orig |-> 100000, new_bal_orig |-> 50000,
      old_bal_dest |-> 0, new_bal_dest |-> 50000 ]

\* ------------------------------------------------------------- classifier

\* positive-class probabilities (percent) predict_proba may return
Probs == {10, 50, 90}

\* labels predict may return
Labels == {0, 1}

\* ------------------------------------------------------------------- state

VARIABLES
    pc,             \* position of the script run
    artifact,       \* 'fraud_detector_xgb_model.joblib': "ok", "missing" or "corrupt"
    cache,          \* st.cache_resource memo of load_model: 0 = empty, k = object of read k
    reads,          \* joblib.load calls made so far
    model,          \* the script's global model in this run: 0 = unbound
    submit_btn,     \* st.form_submit_button's value in this run
    args,           \* the widgets' values
    input_data_df,  \* the row of input_data_df, << >> before it is built
    probability,    \* << p >> once predict_proba returned
    prediction,     \* << label >> once predict returned
    called,         \* scoring functions invoked in this run
    ui              \* what this run has rendered

vars == << pc, artifact, cache, reads, model, submit_btn, args, input_data_df,
           probability, prediction, called, ui >>

EmptyUi ==
    [ sidebar |-> FALSE, load_error |-> FALSE, form |-> FALSE,
      result |-> "none", risk |-> << >>, indicators |-> << >>, exception |-> FALSE ]

Ended == {"idle", "done", "stopped", "raised"}

Init ==
    /\ pc = "idle"
    /\ artifact \in {"ok", "missing", "corrupt"}
    /\ cache = 0
    /\ reads = 0
    /\ model = 0
    /\ submit_btn = FALSE
    /\ args = DefaultArgs
    /\ input_data_df = << >>
    /\ probability = << >>
    /\ prediction = << >>
    /\ called = {}
    /\ ui = EmptyUi

\* ------------------------------------------------------------- environment

\* The artifact file is deployed, removed or damaged between runs.
ArtifactChange ==
    /\ pc \in Ended
    /\ \E a \in {"ok", "missing", "corrupt"} \ {artifact} : artifact' = a
    /\ UNCHANGED << pc, cache, reads, model, submit_btn, args, input_data_df,
                    probability, prediction, called, ui >>

\* An interaction makes Streamlit run the script from the top with fresh
\* globals and an empty page.  The submit button exists only on a page that
\* rendered the form; submitting sends the form's widget values.
StartRun ==
    /\ pc \in Ended
    /\ \E submit \in BOOLEAN :
          /\ submit => ui.form
          /\ submit_btn' = submit
          /\ IF submit THEN args' \in Args(FormTypes) ELSE args' = args
    /\ pc' = "load"
    /\ model' = 0
    /\ input_data_df' = << >>
    /\ probability' = << >>
    /\ prediction' = << >>
    /\ called' = {}
    /\ ui' = EmptyUi
    /\ UNCHANGED << artifact, cache, reads >>

\* -------------------------------------------------------------- load_model

\* @st.cache_resource: a stored return value is reused without running the body
CacheHit_Never == FALSE

CacheHit == cache # 0

\* model = load_model() served from the memo; st.sidebar.success
LoadModelCached ==
    /\ pc = "load"
    /\ CacheHit
    /\ model' = cache
    /\ ui' = [ui EXCEPT !.sidebar = TRUE]
    /\ pc' = "form"
    /\ UNCHANGED << artifact, cache, reads, submit_btn, args, input_data_df,
                    probability, prediction, called >>

\* joblib.load returns: the object is memoised and bound; st.sidebar.success
LoadModelRead ==
    /\ pc = "load"
    /\ ~CacheHit
    /\ reads < MaxReads
    /\ artifact = "ok"
    /\ reads' = reads + 1
    /\ cache' = reads + 1
    /\ model' = reads + 1
    /\ ui' = [ui EXCEPT !.sidebar = TRUE]
    /\ pc' = "form"
    /\ UNCHANGED << artifact, submit_btn, args, input_data_df,
                    probability, prediction, called >>

LoadModelFail_NoStop ==
    /\ pc = "load"
    /\ ~CacheHit
    /\ reads < MaxReads
    /\ artifact # "ok"
    /\ reads' = reads + 1
    /\ ui' = [ui EXCEPT !.load_error = TRUE]
    /\ pc' = "form"
    /\ UNCHANGED << artifact, cache, model, submit_btn, args, input_data_df,
                    probability, prediction, called >>

\* joblib.load raises (FileNotFoundError or any Exception): st.error, st.stop.
\* Nothing is memoised and the run ends there.
LoadModelFail ==
    /\ pc = "load"
    /\ ~CacheHit
    /\ reads < MaxReads
    /\ artifact # "ok"
    /\ reads' = reads + 1
    /\ ui' = [ui EXCEPT !.load_error = TRUE]
    /\ pc' = "stopped"
    /\ UNCHANGED << artifact, cache, model, submit_btn, args, input_data_df,
                    probability, prediction, called >>

\* ------------------------------------------------------------------- form

\* with st.form(...): the widgets and the button; if submit_btn: ...
RenderForm ==
    /\ pc = "form"
    /\ ui' = [ui EXCEPT !.form = TRUE]
    /\ pc' = IF submit_btn THEN "preprocess" ELSE "done"
    /\ UNCHANGED << artifact, cache, reads, model, submit_btn, args, input_data_df,
                    probability, prediction, called >>

\* input_data_df = preprocess_input(...)
Preprocess ==
    /\ pc = "preprocess"
    /\ input_data_df' = preprocess_input(args)
    /\ called' = called \cup {"preprocess_input"}
    /\ pc' = "predict_proba"
    /\ UNCHANGED << artifact, cache, reads, model, submit_btn, args,
                    probability, prediction, ui >>

\* probability = model.predict_proba(input_data_df)[0][1]
PredictProba ==
    /\ pc = "predict_proba"
    /\ \E p \in Probs : probability' = << p >>
    /\ called' = called \cup {"predict_proba"}
    /\ pc' = "predict"
    /\ UNCHANGED << artifact, cache, reads, model, submit_btn, args, input_data_df,
                    prediction, ui >>

\* prediction = model.predict(input_data_df)[0]
Predict ==
    /\ pc = "predict"
    /\ \E l \in Labels : prediction' = << l >>
    /\ called' = called \cup {"predict"}
    /\ pc' = "render"
    /\ UNCHANGED << artifact, cache, reads, model, submit_btn, args, input_data_df,
                    probability, ui >>

ClassifierRaises_RendersAnyway ==
    /\ pc \in {"predict_proba", "predict"}
    /\ called' = called \cup {pc}
    /\ ui' = [ui EXCEPT !.exception = TRUE, !.result = "ALLOW"]
    /\ pc' = "raised"
    /\ UNCHANGED << artifact, cache, reads, model, submit_btn, args, input_data_df,
                    probability, prediction >>

\* predict_proba or predict raises.  The script has no handler: the exception
\* leaves the script, whose run ends with the exception shown on the page.
ClassifierRaises ==
    /\ pc \in {"predict_proba", "predict"}
    /\ called' = called \cup {pc}
    /\ ui' = [ui EXCEPT !.exception = TRUE]
    /\ pc' = "raised"
    /\ UNCHANGED << artifact, cache, reads, model, submit_btn, args, input_data_df,
                    probability, prediction >>

\* if prediction == 1: ... else: ...
Recommendation_FromProbability(label, p) ==
    IF p >= 50 THEN "BLOCK_AND_INVESTIGATE" ELSE "ALLOW"

Recommendation(label, p) ==
    IF label = 1 THEN "BLOCK_AND_INVESTIGATE" ELSE "ALLOW"

\* st.divider and the result block
Render ==
    /\ pc = "render"
    /\ ui' = [ui EXCEPT
                !.result = Recommendation(prediction[1], probability[1]),
                !.risk = probability,
                !.indicators = IF prediction[1] = 1
                               THEN << input_data_df[8], input_data_df[9] >>
                               ELSE << >>]
    /\ pc' = "done"
    /\ UNCHANGED << artifact, cache, reads, model, submit_btn, args, input_data_df,
                    probability, prediction, called >>

Next ==
    \/ ArtifactChange
    \/ StartRun
    \/ LoadModelCached
    \/ LoadModelRead
    \/ LoadModelFail
    \/ RenderForm
    \/ Preprocess
    \/ PredictProba
    \/ Predict
    \/ ClassifierRaises
    \/ Render

Spec == Init /\ [][Next]_vars

\* -------------------------------------------- preprocess_input on its own

\* A direct call of preprocess_input with any argument values.
InitBuild ==
    /\ pc = "call"
    /\ artifact = "ok"
    /\ cache = 0
    /\ reads = 0
    /\ model = 0
    /\ submit_btn = FALSE
    /\ args \in Args(AnyTypes)
    /\ input_data_df = << >>
    /\ probability = << >>
    /\ prediction = << >>
    /\ called = {}
    /\ ui = EmptyUi

BuildCall ==
    /\ pc = "call"
    /\ input_data_df' = preprocess_input(args)
    /\ pc' = "returned"
    /\ UNCHANGED << artifact, cache, reads, model, submit_btn, args,
                    probability, prediction, called, ui >>

NextBuild == BuildCall

SpecBuild == InitBuild /\ [][NextBuild]_vars

\* ================================================================== claims

Built == input_data_df # << >>

ZeroDest == args.old_bal_dest = 0 /\ args.new_bal_dest = 0

\* the receiver balances the claims expect in fields 6 and 7
AdjOld == IF ZeroDest /\ args.amount # 0 THEN -1 ELSE args.old_bal_dest

AdjNew == IF ZeroDest /\ args.amount # 0 THEN -1 ELSE args.new_bal_dest

\* C1: fields 6 and 7 of the feature vector are both -1 exactly when both
\* receiver balances are 0 and amount is not 0; otherwise they are the raw
\* receiver balances, and with amount 0 and zero receiver balances the
\* receiver error is 0.
C1_ImputationGating ==
    Built =>
        /\ (input_data_df[6] = -1 /\ input_data_df[7] = -1)
              <=> (ZeroDest /\ args.amount # 0)
        /\ ~(ZeroDest /\ args.amount # 0) =>
              /\ input_data_df[6] = args.old_bal_dest
              /\ input_data_df[7] = args.new_bal_dest
        /\ (ZeroDest /\ args.amount = 0) => input_data_df[9] = 0

C1_Witness == Built /\ ZeroDest /\ args.amount = 0 /\ input_data_df[6] = 0

\* C2 as stated: receiver balances 0 and 0 with amount 100 give receiver
\* fields -1 and a receiver error of 102.
C2_Original ==
    (Built /\ ZeroDest /\ args.amount = 100) =>
        /\ input_data_df[6] = -1
        /\ input_data_df[7] = -1
        /\ input_data_df[9] = 102

\* C2 amended: receiver balances 0 and 0 with amount 100 give receiver
\* fields -1 and a receiver error of 100 (-1 + 100 - (-1)).
C2_Amended ==
    (Built /\ ZeroDest /\ args.amount = 100) =>
        /\ input_data_df[6] = -1
        /\ input_data_df[7] = -1
        /\ input_data_df[9] = 100

C2_Witness == Built /\ ZeroDest /\ args.amount = 100 /\ input_data_df[7] = -1

Scenario(newDest) ==
    [ step |-> 1, type_input |-> "TRANSFER", amount |-> 50000,
      old_bal_orig |-> 100000, new_bal_orig |-> 50000,
      old_bal_dest |-> 0, new_bal_dest |-> newDest ]

\* C3 as stated: scenario 2 (receiver 0 -> 0) yields
\* [1, 0, 50000, 100000, 50000, -1, -1, 0, 50051].
C3_Original ==
    (Built /\ args = Scenario(0)) =>
        input_data_df = << 1, 0, 50000, 100000, 50000, -1, -1, 0, 50051 >>

\* C3 amended: scenario 2 (receiver 0 -> 0) yields
\* [1, 0, 50000, 100000, 50000, -1, -1, 0, 50000].
C3_Amended ==
    (Built /\ args = Scenario(0)) =>
        input_data_df = << 1, 0, 50000, 100000, 50000, -1, -1, 0, 50000 >>

C3_Witness == Built /\ args = Scenario(0)

\* C4: the rendered decision is BLOCK_AND_INVESTIGATE exactly when predict
\* returned 1 and ALLOW exactly when it returned 0, whatever probability
\* predict_proba returned; every submission that was scored renders one.
C4_DecisionFromLabel ==
    /\ ui.result # "none" =>
          /\ prediction # << >>
          /\ probability # << >>
          /\ ui.result = "BLOCK_AND_INVESTIGATE" <=> prediction[1] = 1
          /\ ui.result = "ALLOW" <=> prediction[1] = 0
    /\ (pc = "done" /\ submit_btn) => ui.result # "none"

C4_Witness ==
    /\ ui.result = "BLOCK_AND_INVESTIGATE"
    /\ prediction = << 1 >>
    /\ probability = << 10 >>

\* C5: a run whose model load failed stops there: it renders no form and
\* invokes none of preprocess_input, predict_proba, predict; and whenever a
\* form is rendered, a submission accepted or a scoring function invoked,
\* the model is loaded.
C5_FatalLoad ==
    /\ ui.load_error =>
          /\ pc = "stopped"
          /\ ~ui.form
          /\ called = {}
          /\ ~submit_btn
    /\ pc = "stopped" => (ui.load_error /\ model = 0 /\ cache = 0)
    /\ (ui.form \/ called # {} \/ Built) => (model # 0 /\ cache # 0)
    /\ submit_btn => cache # 0

C5_Witness == pc = "stopped" /\ ui.load_error /\ artifact = "missing" /\ reads > 1

\* C6: when predict_proba or predict raises, that run shows the exception
\* and no probability, decision or indicators; the loaded model and its
\* memo are unchanged; the form is on the page, and the next run starts
\* from an empty page with no value of the failed run left.
C6_StateAtFailure ==
    pc = "raised" =>
        /\ ui.exception
        /\ ui.form
        /\ ui.result = "none"
        /\ ui.risk = << >>
        /\ ui.indicators = << >>
        /\ prediction = << >>
        /\ model = cache
        /\ cache # 0

C6_StepsAroundFailure ==
    /\ (pc # "raised" /\ pc' = "raised") => UNCHANGED << cache, reads, artifact, model >>
    /\ (pc = "raised" /\ pc' = "load") =>
          /\ UNCHANGED << cache, reads, artifact >>
          /\ ui' = EmptyUi
          /\ probability' = << >>
          /\ prediction' = << >>
          /\ input_data_df' = << >>
          /\ called' = {}
    /\ ui'.exception => pc' = "raised"

C6_FailureIsolated == []C6_StateAtFailure /\ [][C6_StepsAroundFailure]_vars

C6_Witness == pc = "raised" /\ probability # << >> /\ "predict" \in called

\* C7: TRANSFER encodes to 0, CASH_OUT to 1 and any other value to 1, and
\* every call returns a feature vector.
C7_TypeEncoding ==
    /\ Built =>
          /\ args.type_input = "TRANSFER" => input_data_df[2] = 0
          /\ args.type_input = "CASH_OUT" => input_data_df[2] = 1
          /\ args.type_input \notin {"TRANSFER", "CASH_OUT"} => input_data_df[2] = 1
    /\ pc = "returned" => Built

C7_Witness == Built /\ args.type_input = "PAYMENT" /\ input_data_df[2] = 1

\* C8: the feature vector has exactly 9 fields, in the order step, type code,
\* amount, sender before, sender after, adjusted receiver before, adjusted
\* receiver after, sender error, receiver error; the sender error is
\* sender after + amount - sender before on the raw values and the receiver
\* error is adjusted before + amount - adjusted after; scenario 1 gives
\* [1, 0, 50000, 100000, 50000, 0, 50000, 0, 0].
C8_Assembly ==
    Built =>
        /\ Len(input_data_df) = 9
        /\ Len(columns) = 9
        /\ input_data_df[1] = args.step
        /\ input_data_df[2] \in {0, 1}
        /\ input_data_df[2] = 0 <=> args.type_input = "TRANSFER"
        /\ input_data_df[3] = args.amount
        /\ input_data_df[4] = args.old_bal_orig
        /\ input_data_df[5] = args.new_bal_orig
        /\ input_data_df[6] = AdjOld
        /\ input_data_df[7] = AdjNew
        /\ input_data_df[8] = Fl(Fl(args.new_bal_orig + args.amount) - args.old_bal_orig)
        /\ input_data_df[9] = Fl(Fl(AdjOld + args.amount) - AdjNew)
        /\ args = Scenario(50000) =>
              input_data_df = << 1, 0, 50000, 100000, 50000, 0, 50000, 0, 0 >>

C8_Witness == Built /\ args = Scenario(50000) /\ input_data_df[9] = 0

\* C9: once load_model has returned a model, the artifact is never read
\* again and the memoised object never changes; every run that renders the
\* form or scores uses that object.
C9_StepAfterLoad == cache # 0 => (cache' = cache /\ reads' = reads)

C9_SameObject == (ui.form \/ called # {}) => (cache # 0 /\ model = cache)

C9_LoadedOnce == [][C9_StepAfterLoad]_vars /\ []C9_SameObject

C9_Witness == pc = "render" /\ artifact = "missing" /\ cache # 0 /\ model = cache

\* C10 as stated: for every input the receiver error equals receiver before
\* + amount - receiver after on the raw balances, and equals amount whenever
\* imputation triggers.
C10_Original ==
    Built =>
        /\ input_data_df[9] = Fl(Fl(args.old_bal_dest + args.amount) - args.new_bal_dest)
        /\ (ZeroDest /\ args.amount # 0) => input_data_df[9] = args.amount

\* C10 amended: for every whole amount within the significand range of the
\* float (up to 2^MantBits), the receiver error equals receiver before +
\* amount - receiver after on the raw balances, and equals amount whenever
\* imputation triggers.
C10_Amended ==
    (Built /\ args.amount <= ExactMax) =>
        /\ input_data_df[9] = Fl(Fl(args.old_bal_dest + args.amount) - args.new_bal_dest)
        /\ (ZeroDest /\ args.amount # 0) => input_data_df[9] = args.amount

C10_Witness ==
    Built /\ ZeroDest /\ args.amount = ExactMax /\ input_data_df[6] = -1

====
